---- MODULE Spec2Model ----
(***************************************************************************)
(* Decision tasks of reference-browser (automation/taskcluster).           *)
(*                                                                         *)
(* One run of a decision task is modelled: the command line selects a      *)
(* policy (pr_open_or_push, master_push, nightly of decision_task.py, or   *)
(* nightly of the older decision_task_nightly.py), the policy builds task  *)
(* descriptors and schedules them one call at a time.  Python strings that *)
(* the code slices or searches are sequences of one-character strings;     *)
(* scope strings are sequences of their ':'-separated segments; task       *)
(* identifiers are integers (slugId() yields 1, 2, ...; TASK_ID is 0 and   *)
(* Python's None identifier is -1).                                        *)
(***************************************************************************)
EXTENDS Integers, Sequences, FiniteSets, TLC

\* ------------------------------------------------------------------------
\* String literals of the source, as character sequences
\* ------------------------------------------------------------------------
s_aarch64 == <<"a", "a", "r", "c", "h", "6", "4">>
s_x86 == <<"x", "8", "6">>
s_arm == <<"a", "r", "m">>
s_debug == <<"d", "e", "b", "u", "g">>
s_release == <<"r", "e", "l", "e", "a", "s", "e">>
s_public_target == <<"p", "u", "b", "l", "i", "c", "/", "t", "a", "r", "g", "e", "t", ".">>
s_apk == <<".", "a", "p", "k">>
s_public_target_apk == <<"p", "u", "b", "l", "i", "c", "/", "t", "a", "r", "g", "e", "t", ".", "a", "p", "k">>
s_unsigned == <<"-", "u", "n", "s", "i", "g", "n", "e", "d">>
s_apk_dir == <<"/", "b", "u", "i", "l", "d", "/", "r", "e", "f", "e", "r", "e", "n", "c", "e", "-", "b", "r", "o", "w", "s", "e", "r", "/", "a", "p", "p", "/", "b", "u", "i", "l", "d", "/", "o", "u", "t", "p", "u", "t", "s", "/", "a", "p", "k", "/">>
s_android == <<"a", "n", "d", "r", "o", "i", "d", "-">>
s_slash == <<"/">>
s_app == <<"/", "a", "p", "p", "-">>
s_dash == <<"-">>
s_test == <<"t", "e", "s", "t", ":", " ">>
s_assemble == <<"a", "s", "s", "e", "m", "b", "l", "e", ":", " ">>
s_nightly_dir == <<"/", "b", "u", "i", "l", "d", "/", "r", "e", "f", "e", "r", "e", "n", "c", "e", "-", "b", "r", "o", "w", "s", "e", "r", "/", "a", "p", "p", "/", "b", "u", "i", "l", "d", "/", "o", "u", "t", "p", "u", "t", "s", "/", "a", "p", "k", "/", "g", "e", "c", "k", "o", "N", "i", "g", "h", "t", "l", "y">>
s_nightly_file == <<"/", "r", "e", "l", "e", "a", "s", "e", "/", "a", "p", "p", "-", "g", "e", "c", "k", "o", "N", "i", "g", "h", "t", "l", "y", "-">>
s_release_unsigned_apk == <<"-", "r", "e", "l", "e", "a", "s", "e", "-", "u", "n", "s", "i", "g", "n", "e", "d", ".", "a", "p", "k">>

\* Pieces from which the variant tokens of the runs are assembled.
s_geckoNightly == <<"g", "e", "c", "k", "o", "N", "i", "g", "h", "t", "l", "y">>
s_64 == <<"6", "4">>
s_Debug == <<"D", "e", "b", "u", "g">>
s_Release == <<"R", "e", "l", "e", "a", "s", "e">>
s_Arm == <<"A", "r", "m">>
s_Aarch64 == <<"A", "a", "r", "c", "h", "6", "4">>
s_X86 == <<"X", "8", "6">>
s_ARM == <<"A", "R", "M">>
s_DEBUG == <<"D", "E", "B", "U", "G">>

UpperChars == <<"A", "B", "C", "D", "E", "F", "G", "H", "I", "J", "K", "L", "M", "N", "O", "P", "Q", "R", "S", "T", "U", "V", "W", "X", "Y", "Z">>
LowerChars == <<"a", "b", "c", "d", "e", "f", "g", "h", "i", "j", "k", "l", "m", "n", "o", "p", "q", "r", "s", "t", "u", "v", "w", "x", "y", "z">>

\* ------------------------------------------------------------------------
\* Python str operations used by the source
\* ------------------------------------------------------------------------
lower_char(c) ==
    IF \E k \in 1..Len(UpperChars) : UpperChars[k] = c
    THEN LowerChars[CHOOSE k \in 1..Len(UpperChars) : UpperChars[k] = c]
    ELSE c

upper_char(c) ==
    IF \E k \in 1..Len(LowerChars) : LowerChars[k] = c
    THEN UpperChars[CHOOSE k \in 1..Len(LowerChars) : LowerChars[k] = c]
    ELSE c

\* str.lower()
lower(s) == [k \in 1..Len(s) |-> lower_char(s[k])]

\* str.capitalize(): first character upper-cased, the rest lower-cased
capitalize(s) == [k \in 1..Len(s) |-> IF k = 1 THEN upper_char(s[k]) ELSE lower_char(s[k])]

\* sub in s
str_in(sub, s) ==
    \E k \in 1..(Len(s) - Len(sub) + 1) : SubSeq(s, k, k + Len(sub) - 1) = sub

\* s.endswith(suffix)
endswith(s, suffix) ==
    /\ Len(s) >= Len(suffix)
    /\ SubSeq(s, Len(s) - Len(suffix) + 1, Len(s)) = suffix

\* s[:-n] for n >= 1; for n = 0 Python's s[:-0] is s[:0], the empty string
slice_off_end(s, n) == IF n = 0 THEN <<>> ELSE SubSeq(s, 1, Len(s) - n)

\* ------------------------------------------------------------------------
\* _get_architecture_and_build_type_from_variant
\* None is the empty sequence: the code tests "not architecture".
\* ------------------------------------------------------------------------
None == <<>>

architecture_of(variant) ==
    IF str_in(s_aarch64, variant) THEN s_aarch64
    ELSE IF str_in(s_x86, variant) THEN s_x86
    ELSE IF str_in(s_arm, variant) THEN s_arm
    ELSE None

build_type_of(variant) ==
    IF endswith(variant, s_debug) THEN s_debug
    ELSE IF endswith(variant, s_release) THEN s_release
    ELSE None

\* the classifier without the lower() call
_get_architecture_and_build_type_case_sensitive(variant) ==
    LET architecture == architecture_of(variant)
        build_type == build_type_of(variant)
    IN  [raised |-> (architecture = None \/ build_type = None),
         architecture |-> architecture,
         build_type |-> build_type]

_get_architecture_and_build_type_from_variant(variant) ==
    LET v == lower(variant)
        architecture == architecture_of(v)
        build_type == build_type_of(v)
    IN  [raised |-> (architecture = None \/ build_type = None),
         architecture |-> architecture,
         build_type |-> build_type]

\* 'android-{}-{}'.format(architecture, build_type)
_craft_treeherder_platform_from_variant(variant) ==
    LET r == _get_architecture_and_build_type_from_variant(variant)
    IN  s_android \o r.architecture \o s_dash \o r.build_type

\* the path with the -unsigned postfix whatever the build type
_craft_apk_full_path_always_unsigned(variant) ==
    LET r == _get_architecture_and_build_type_from_variant(variant)
        short_variant == slice_off_end(variant, Len(r.build_type))
        shorter_variant == slice_off_end(short_variant, Len(r.architecture))
    IN  s_apk_dir \o short_variant \o s_slash \o r.build_type \o s_app
            \o shorter_variant \o s_dash \o r.architecture \o s_dash
            \o r.build_type \o s_unsigned \o s_apk

_craft_apk_full_path_from_variant(variant) ==
    LET r == _get_architecture_and_build_type_from_variant(variant)
        short_variant == slice_off_end(variant, Len(r.build_type))
        shorter_variant == slice_off_end(short_variant, Len(r.architecture))
        postfix == IF r.build_type = s_release THEN s_unsigned ELSE <<>>
    IN  s_apk_dir \o short_variant \o s_slash \o r.build_type \o s_app
            \o shorter_variant \o s_dash \o r.architecture \o s_dash
            \o r.build_type \o postfix \o s_apk

\* the artifacts dict: one entry, public name -> on-disk path
_craft_artifacts_from_variant(variant) ==
    LET r == _get_architecture_and_build_type_from_variant(variant)
    IN  { [name |-> s_public_target \o r.architecture \o s_apk,
           path |-> _craft_apk_full_path_from_variant(variant)] }

\* ------------------------------------------------------------------------
\* Environment and program constants
\* ------------------------------------------------------------------------
\* os.environ.get('TASK_ID'): the identifier of the decision task itself
TASK_ID == 0
\* Python's None where a task identifier is expected
NoneId == -1
\* the fixed architecture list of both nightly policies
architectures == <<s_x86, s_arm, s_aarch64>>

\* scope strings, as sequences of their ':'-separated segments
releng == <<"project", "mobile", "reference-browser", "releng">>
scope_signing_format == releng \o <<"signing", "format", "autograph_apk_reference_browser">>
scope_signing_cert(signing) == releng \o <<"signing", "cert", signing>>
\* the publish scope without the staging suffix
scope_googleplay_production_only(staging) ==
    releng \o <<"googleplay", "product", "reference-browser">>

\* '...googleplay:product:reference-browser{}'.format(':dep' if is_staging else '')
scope_googleplay(staging) ==
    releng \o <<"googleplay", "product", "reference-browser">>
           \o (IF staging THEN <<"dep">> ELSE <<>>)
scope_secret_sentry == <<"secrets", "get", "project/mobile/reference-browser/sentry">>
scope_secret_nimbledroid == <<"secrets", "get", "project/mobile/reference-browser/nimbledroid">>

\* ------------------------------------------------------------------------
\* Task descriptor builders (decision_task.py)
\* ------------------------------------------------------------------------
create_raw_task(name, workerType, scopes, payload, provisioner_id, additional_dependencies) ==
    [ name |-> name,
      workerType |-> workerType,
      taskGroupId |-> TASK_ID,
      retries |-> 5,
      priority |-> "lowest",
      provisionerId |-> provisioner_id,
      dependencies |-> <<TASK_ID>> \o additional_dependencies,
      scopes |-> scopes,
      payload |-> payload ]

create_in_repo_task(name, generate_cot, scopes, artifacts) ==
    create_raw_task(name, "BUILD_WORKER_TYPE", scopes,
        [ chainOfTrust |-> generate_cot,
          artifacts |-> artifacts,
          upstreamArtifacts |-> <<>> ],
        "aws-provisioner-v1", <<>>)

create_task(name, generate_cot, scopes, artifacts) ==
    create_in_repo_task(name, generate_cot, scopes, artifacts)

create_detekt_task == create_task(<<"detekt">>, FALSE, <<>>, {})
create_ktlint_task == create_task(<<"ktlint">>, FALSE, <<>>, {})
create_lint_task == create_task(<<"lint">>, FALSE, <<>>, {})
create_compare_locales_task == create_in_repo_task(<<"compare-locales">>, FALSE, <<>>, {})

create_variant_test_task(variant) ==
    create_task(s_test \o variant, FALSE, <<>>, {})

create_variant_assemble_task(variant) ==
    create_task(s_assemble \o variant, TRUE, <<>>, _craft_artifacts_from_variant(variant))

\* dep-signing that depends on the first upstream task only
create_dep_signing_task_first_only(artifacts) ==
    create_raw_task(<<"dep-sign">>, "mobile-signing-dep-v1",
        << scope_signing_format, scope_signing_cert("dep-signing") >>,
        [ chainOfTrust |-> FALSE,
          artifacts |-> {},
          upstreamArtifacts |->
              [ k \in 1..Len(artifacts) |->
                  [ paths |-> <<artifacts[k][1]>>,
                    taskId |-> artifacts[k][2],
                    taskType |-> "build" ] ] ],
        "scriptworker-prov-v1",
        << artifacts[1][2] >>)

\* artifacts: a sequence of (apk_path, task_id) pairs
create_dep_signing_task(artifacts) ==
    create_raw_task(<<"dep-sign">>, "mobile-signing-dep-v1",
        << scope_signing_format, scope_signing_cert("dep-signing") >>,
        [ chainOfTrust |-> FALSE,
          artifacts |-> {},
          upstreamArtifacts |->
              [ k \in 1..Len(artifacts) |->
                  [ paths |-> <<artifacts[k][1]>>,
                    taskId |-> artifacts[k][2],
                    taskType |-> "build" ] ] ],
        "scriptworker-prov-v1",
        [ k \in 1..Len(artifacts) |-> artifacts[k][2] ])

\* {'public/target.{}.apk'.format(arch): {... "path": ...} for arch in architectures}
nightly_artifacts(archs) ==
    { [ name |-> s_public_target \o archs[k] \o s_apk,
        path |-> s_nightly_dir \o capitalize(archs[k]) \o s_nightly_file
                    \o archs[k] \o s_release_unsigned_apk ] : k \in 1..Len(archs) }

\* ['public/target.{}.apk'.format(arch) for arch in architectures]
nightly_apk_paths(archs) ==
    [ k \in 1..Len(archs) |-> s_public_target \o archs[k] \o s_apk ]

create_nightly_assemble_task(archs) ==
    create_in_repo_task(<<"(Reference Browser) Build task">>, TRUE,
        << scope_secret_sentry >>, nightly_artifacts(archs))

create_nightly_signing_task(archs, build_task_id, staging) ==
    LET signing == IF staging THEN "dep-signing" ELSE "release-signing"
        worker_type == IF staging THEN "mobile-signing-dep-v1" ELSE "mobile-signing-v1"
    IN  create_raw_task(<<"(Reference Browser) Signing task">>, worker_type,
            << scope_signing_cert(signing), scope_signing_format >>,
            [ chainOfTrust |-> FALSE,
              artifacts |-> {},
              upstreamArtifacts |->
                  << [ paths |-> nightly_apk_paths(archs),
                       taskId |-> build_task_id,
                       taskType |-> "build" ] >> ],
            "scriptworker-prov-v1", <<build_task_id>>)

create_google_push_task(archs, sign_task_id, staging) ==
    LET worker_type == IF staging THEN "mobile-pushapk-dep-v1" ELSE "mobile-pushapk-v1"
    IN  create_raw_task(<<"(Reference Browser) Push task">>, worker_type,
            << scope_googleplay(staging) >>,
            [ chainOfTrust |-> FALSE,
              artifacts |-> {},
              upstreamArtifacts |->
                  << [ paths |-> nightly_apk_paths(archs),
                       taskId |-> sign_task_id,
                       taskType |-> "signing" ] >> ],
            "scriptworker-prov-v1", <<sign_task_id>>)

create_nimbledroid_task ==
    create_in_repo_task(<<"(RB for Android) Upload Debug APK to Nimbledroid">>, FALSE,
        << scope_secret_nimbledroid >>, {})

\* ------------------------------------------------------------------------
\* Task builders of lib.tasks.TaskBuilder, used by decision_task_nightly.py.
\* The envelope is the one section 4.2 of the specification describes: the
\* dependency list is the task-group identifier plus the caller's upstream
\* identifiers.
\* ------------------------------------------------------------------------
TaskBuilder_build_task(name, scopes, artifacts) ==
    create_raw_task(name, "BUILD_WORKER_TYPE", scopes,
        [ chainOfTrust |-> TRUE, artifacts |-> artifacts, upstreamArtifacts |-> <<>> ],
        "aws-provisioner-v1", <<>>)

TaskBuilder_craft_signing_task(build_task_id, name, apks, scopes, staging) ==
    create_raw_task(name,
        IF staging THEN "mobile-signing-dep-v1" ELSE "mobile-signing-v1", scopes,
        [ chainOfTrust |-> FALSE, artifacts |-> {},
          upstreamArtifacts |-> << [ paths |-> apks, taskId |-> build_task_id,
                                     taskType |-> "build" ] >> ],
        "scriptworker-prov-v1", <<build_task_id>>)

TaskBuilder_craft_push_task(signing_task_id, name, apks, scopes, staging) ==
    create_raw_task(name,
        IF staging THEN "mobile-pushapk-dep-v1" ELSE "mobile-pushapk-v1", scopes,
        [ chainOfTrust |-> FALSE, artifacts |-> {},
          upstreamArtifacts |-> << [ paths |-> apks, taskId |-> signing_task_id,
                                     taskType |-> "signing" ] >> ],
        "scriptworker-prov-v1", <<signing_task_id>>)

TaskBuilder_craft_upload_apk_nimbledroid_task(build_task_id, name, dependencies, scopes) ==
    create_raw_task(name, "BUILD_WORKER_TYPE", scopes,
        [ chainOfTrust |-> FALSE, artifacts |-> {}, upstreamArtifacts |-> <<>> ],
        "aws-provisioner-v1", dependencies)

\* decision_task_nightly.py
generate_build_task(archs) ==
    TaskBuilder_build_task(<<"(Reference Browser) Build task">>,
        << scope_secret_sentry >>, nightly_artifacts(archs))

generate_signing_task(build_task_id, archs, staging) ==
    TaskBuilder_craft_signing_task(build_task_id, <<"(Reference Browser) Signing task">>,
        nightly_apk_paths(archs),
        << scope_signing_format,
           scope_signing_cert(IF staging THEN "dep-signing" ELSE "release-signing") >>,
        staging)

\* returns the pair (taskcluster.slugId(), task); slug is that fresh identifier
generate_push_task(slug, signing_task_id, archs, staging) ==
    << slug,
       TaskBuilder_craft_push_task(signing_task_id, <<"(Reference Browser) Push task">>,
           nightly_apk_paths(archs), << scope_googleplay(staging) >>, staging) >>

generate_upload_apk_nimbledroid_task(slug, build_task_id) ==
    << slug,
       TaskBuilder_craft_upload_apk_nimbledroid_task(build_task_id,
           <<"(RB for Android) Upload Debug APK to Nimbledroid">>,
           <<build_task_id>>, << scope_secret_nimbledroid >>) >>

\* ------------------------------------------------------------------------
\* Inputs of a run
\* ------------------------------------------------------------------------
\* the longest variant list lib.build_variants.from_gradle() returns here
MaxVariants == 3

armDebug == s_arm \o s_Debug
armRelease == s_arm \o s_Release
aarch64Debug == s_aarch64 \o s_Debug
x86Debug == s_x86 \o s_Debug
arm64Release == s_arm \o s_64 \o s_Release
geckoNightlyAarch64Release == s_geckoNightly \o s_Aarch64 \o s_Release

\* variants that occur in the longer lists; the last one names no architecture
CoreVariants == { armDebug, armRelease, aarch64Debug, x86Debug, s_Debug }

Prefixes == { <<>>, s_geckoNightly }
ArchPieces == { <<>>, s_arm, s_Arm, s_ARM, s_aarch64, s_Aarch64, s_x86, s_X86 }
MidPieces == { <<>>, s_64, s_Arm, s_X86 }
BuildPieces == { <<>>, s_debug, s_Debug, s_DEBUG, s_release, s_Release }
TailPieces == { <<>>, s_64 }

\* every token prefix + architecture + middle + build type + tail
Tokens ==
    { p \o a \o m \o b \o t :
        p \in Prefixes, a \in ArchPieces, m \in MidPieces, b \in BuildPieces, t \in TailPieces }

SeqsUpTo(S, n) == UNION { [1..k -> S] : k \in 0..n }

VariantLists == SeqsUpTo(CoreVariants, MaxVariants) \cup { <<t>> : t \in Tokens }

Commands == { "pr-open-or-push", "master-push", "release", "nightly-legacy" }
UsesVariants(c) == c \in { "pr-open-or-push", "master-push" }
UsesTaskGraph(c) == c # "pr-open-or-push"

\* ------------------------------------------------------------------------
\* State
\* ------------------------------------------------------------------------
VARIABLES
    command,                  \* the policy selected on the command line
    is_staging,               \* --staging
    variants,                 \* what lib.build_variants.from_gradle() returns
    queue,                    \* the queue collaborator: whether it accepts
                              \* createTask, and the createTask calls it received
    schedule_task_default,    \* the default value of schedule_task's task_id
    slug_count,               \* identifiers taskcluster.slugId() has produced
    pc,                       \* position of the run in its policy
    task_graph,               \* TaskGraph._task_graph
    printed,                  \* what schedule_task printed: (task_id, task) per call
    idx,                      \* position of the for loop over the variants
    variant,                  \* the loop variable
    architecture,             \* arch of master_push
    build_type,               \* build_type of master_push
    assemble_task_id,
    arm_assemble_task_id,
    aarch64_assemble_task_id,
    build_task_id,
    sign_task_id,
    raw_graph,                \* <<>> while unbound, <<graph>> once bound
    files                     \* the files written, name -> content

vars == << command, is_staging, variants, queue, schedule_task_default, slug_count, pc,
           task_graph, printed, idx, variant, architecture, build_type, assemble_task_id,
           arm_assemble_task_id, aarch64_assemble_task_id, build_task_id, sign_task_id,
           raw_graph, files >>

locals == << idx, variant, architecture, build_type, assemble_task_id,
             arm_assemble_task_id, aarch64_assemble_task_id, build_task_id, sign_task_id >>

inputs == << command, is_staging, variants >>

Init ==
    /\ command \in Commands
    /\ is_staging \in (IF command \in { "release", "nightly-legacy" } THEN BOOLEAN ELSE { FALSE })
    /\ variants \in (IF UsesVariants(command) THEN VariantLists ELSE { <<>> })
    /\ queue \in { [ accepting |-> a, created |-> <<>> ] : a \in BOOLEAN }
    \* "def schedule_task(queue, task, task_id=taskcluster.slugId())": the default
    \* is evaluated once, when lib.taskgraph is imported
    /\ schedule_task_default = 1
    /\ slug_count = 1
    /\ pc = IF UsesVariants(command) THEN "detekt" ELSE "build"
    /\ task_graph = <<>>
    /\ printed = <<>>
    /\ idx = 0
    /\ variant = None
    /\ architecture = None
    /\ build_type = None
    /\ assemble_task_id = NoneId
    /\ arm_assemble_task_id = NoneId
    /\ aarch64_assemble_task_id = NoneId
    /\ build_task_id = NoneId
    /\ sign_task_id = NoneId
    /\ raw_graph = <<>>
    /\ files = <<>>

\* ------------------------------------------------------------------------
\* lib/taskgraph.py
\* ------------------------------------------------------------------------
\* schedule_task(queue, task, task_id): prints the identifier and the task and
\* returns the identifier; the queue.createTask call is commented out, so the
\* queue collaborator is left alone.
schedule_task(task, task_id) ==
    /\ printed' = Append(printed, [ task_id |-> task_id, task |-> task ])
    /\ UNCHANGED queue

\* what the schedule_task call of this step returned: the identifier it printed
returned_task_id == printed'[Len(printed')].task_id

\* schedule_new_task that forgets to record the identifier
schedule_new_task_unrecorded(task) ==
    /\ schedule_task(task, schedule_task_default)
    /\ UNCHANGED task_graph

\* TaskGraph.schedule_new_task: schedule_task is called without task_id, so the
\* default applies
schedule_new_task(task) ==
    /\ schedule_task(task, schedule_task_default)
    /\ task_graph' = (returned_task_id :> [ task |-> returned_task_id ]) @@ task_graph

\* TaskGraph.get_raw_graph
get_raw_graph == task_graph

\* json.dump(raw_graph, f): one "key": {"task": id} member per key
json_dump(graph) == { << k, graph[k].task >> : k \in DOMAIN graph }

\* how the policy of this run schedules a task: pr_open_or_push calls
\* schedule_task, the others call TaskGraph.schedule_new_task
schedule(task) ==
    IF UsesTaskGraph(command)
    THEN schedule_new_task(task)
    ELSE schedule_task(task, schedule_task_default) /\ UNCHANGED task_graph

\* ------------------------------------------------------------------------
\* pr_open_or_push and master_push
\* ------------------------------------------------------------------------
\* the for statement: bind the next variant, or leave the loop
for_next ==
    IF idx < Len(variants)
    THEN /\ idx' = idx + 1
         /\ variant' = variants[idx + 1]
         /\ pc' = "test"
    ELSE /\ pc' = IF command = "master-push" THEN "dep_sign" ELSE "done"
         /\ UNCHANGED << idx, variant >>

Detekt ==
    /\ pc = "detekt"
    /\ schedule(create_detekt_task)
    /\ pc' = "ktlint"
    /\ UNCHANGED << inputs, schedule_task_default, slug_count, locals, raw_graph, files >>

Ktlint ==
    /\ pc = "ktlint"
    /\ schedule(create_ktlint_task)
    /\ pc' = "compare_locales"
    /\ UNCHANGED << inputs, schedule_task_default, slug_count, locals, raw_graph, files >>

CompareLocales ==
    /\ pc = "compare_locales"
    /\ schedule(create_compare_locales_task)
    /\ pc' = "lint"
    /\ UNCHANGED << inputs, schedule_task_default, slug_count, locals, raw_graph, files >>

Lint ==
    /\ pc = "lint"
    /\ schedule(create_lint_task)
    /\ for_next
    /\ UNCHANGED << inputs, schedule_task_default, slug_count, architecture, build_type,
                    assemble_task_id, arm_assemble_task_id, aarch64_assemble_task_id,
                    build_task_id, sign_task_id, raw_graph, files >>

\* create_variant_test_task(variant) raises ValueError for a variant that
\* _get_architecture_and_build_type_from_variant rejects; nothing catches it
VariantTest ==
    /\ pc = "test"
    /\ IF _get_architecture_and_build_type_from_variant(variant).raised
       THEN /\ pc' = "error"
            /\ UNCHANGED << printed, queue, task_graph >>
       ELSE /\ schedule(create_variant_test_task(variant))
            /\ pc' = "assemble"
    /\ UNCHANGED << inputs, schedule_task_default, slug_count, locals, raw_graph, files >>

VariantAssemble ==
    /\ pc = "assemble"
    /\ IF _get_architecture_and_build_type_from_variant(variant).raised
       THEN /\ pc' = "error"
            /\ UNCHANGED << printed, queue, task_graph, idx, variant, assemble_task_id >>
       ELSE /\ schedule(create_variant_assemble_task(variant))
            /\ IF command = "master-push"
               THEN /\ assemble_task_id' = returned_task_id
                    /\ pc' = "classify"
                    /\ UNCHANGED << idx, variant >>
               ELSE /\ for_next
                    /\ UNCHANGED assemble_task_id
    /\ UNCHANGED << inputs, schedule_task_default, slug_count, architecture, build_type,
                    arm_assemble_task_id, aarch64_assemble_task_id, build_task_id,
                    sign_task_id, raw_graph, files >>

\* master_push, lines 444-448
Classify ==
    /\ pc = "classify"
    /\ LET r == _get_architecture_and_build_type_from_variant(variant)
       IN  IF r.raised
           THEN /\ pc' = "error"
                /\ UNCHANGED << idx, variant, architecture, build_type,
                                arm_assemble_task_id, aarch64_assemble_task_id >>
           ELSE /\ architecture' = r.architecture
                /\ build_type' = r.build_type
                /\ arm_assemble_task_id' =
                       IF r.build_type = s_debug /\ r.architecture = s_arm
                       THEN assemble_task_id ELSE arm_assemble_task_id
                /\ aarch64_assemble_task_id' =
                       IF /\ ~(r.build_type = s_debug /\ r.architecture = s_arm)
                          /\ r.build_type = s_debug /\ r.architecture = s_aarch64
                       THEN assemble_task_id ELSE aarch64_assemble_task_id
                /\ for_next
    /\ UNCHANGED << inputs, queue, schedule_task_default, slug_count, task_graph, printed,
                    assemble_task_id, build_task_id, sign_task_id, raw_graph, files >>

\* the (apk_path, task_id) pairs master_push hands to create_dep_signing_task
dep_signing_artifacts ==
    << << s_public_target_apk, arm_assemble_task_id >>,
       << s_public_target_apk, aarch64_assemble_task_id >> >>

DepSign ==
    /\ pc = "dep_sign"
    /\ schedule_new_task(create_dep_signing_task(dep_signing_artifacts))
    /\ pc' = "get_raw_graph"
    /\ UNCHANGED << inputs, schedule_task_default, slug_count, locals, raw_graph, files >>

\* raw_graph = task_graph.get_raw_graph()
GetRawGraph ==
    /\ pc = "get_raw_graph"
    /\ raw_graph' = << get_raw_graph >>
    /\ pc' = IF command = "nightly-legacy" THEN "write_graph" ELSE "populate"
    /\ UNCHANGED << inputs, queue, schedule_task_default, slug_count, task_graph, printed,
                    locals, files >>

\* populate_chain_of_trust_required_but_unused_files(raw_graph) of decision_task.py
Populate ==
    /\ pc = "populate"
    /\ command # "nightly-legacy"
    /\ files' = ("task-graph.json" :> json_dump(raw_graph[1]))
                   @@ ("parameters.yml" :> {}) @@ ("actions.json" :> {}) @@ files
    /\ pc' = "done"
    /\ UNCHANGED << inputs, queue, schedule_task_default, slug_count, task_graph, printed,
                    locals, raw_graph >>

\* ------------------------------------------------------------------------
\* nightly of decision_task.py
\* ------------------------------------------------------------------------
NightlyBuild ==
    /\ pc = "build"
    /\ command = "release"
    /\ schedule_new_task(create_nightly_assemble_task(architectures))
    /\ build_task_id' = returned_task_id
    /\ pc' = "sign"
    /\ UNCHANGED << inputs, schedule_task_default, slug_count, idx, variant, architecture,
                    build_type, assemble_task_id, arm_assemble_task_id,
                    aarch64_assemble_task_id, sign_task_id, raw_graph, files >>

NightlySign ==
    /\ pc = "sign"
    /\ command = "release"
    /\ schedule_new_task(create_nightly_signing_task(architectures, build_task_id, is_staging))
    /\ sign_task_id' = returned_task_id
    /\ pc' = "push"
    /\ UNCHANGED << inputs, schedule_task_default, slug_count, idx, variant, architecture,
                    build_type, assemble_task_id, arm_assemble_task_id,
                    aarch64_assemble_task_id, build_task_id, raw_graph, files >>

\* the push step followed by the performance upload whatever the flag
NightlyPush_always_nimbledroid ==
    /\ pc = "push"
    /\ command = "release"
    /\ schedule_new_task(create_google_push_task(architectures, sign_task_id, is_staging))
    /\ pc' = "nimbledroid"
    /\ UNCHANGED << inputs, schedule_task_default, slug_count, locals, raw_graph, files >>

NightlyPush ==
    /\ pc = "push"
    /\ command = "release"
    /\ schedule_new_task(create_google_push_task(architectures, sign_task_id, is_staging))
    /\ pc' = IF ~is_staging THEN "nimbledroid" ELSE "get_raw_graph"
    /\ UNCHANGED << inputs, schedule_task_default, slug_count, locals, raw_graph, files >>

NightlyNimbledroid ==
    /\ pc = "nimbledroid"
    /\ command = "release"
    /\ schedule_new_task(create_nimbledroid_task)
    /\ pc' = "get_raw_graph"
    /\ UNCHANGED << inputs, schedule_task_default, slug_count, locals, raw_graph, files >>

\* ------------------------------------------------------------------------
\* nightly of decision_task_nightly.py
\* ------------------------------------------------------------------------
LegacyBuild ==
    /\ pc = "build"
    /\ command = "nightly-legacy"
    /\ schedule_new_task(generate_build_task(architectures))
    /\ build_task_id' = returned_task_id
    /\ pc' = "sign"
    /\ UNCHANGED << inputs, schedule_task_default, slug_count, idx, variant, architecture,
                    build_type, assemble_task_id, arm_assemble_task_id,
                    aarch64_assemble_task_id, sign_task_id, raw_graph, files >>

LegacySign ==
    /\ pc = "sign"
    /\ command = "nightly-legacy"
    /\ schedule_new_task(generate_signing_task(build_task_id, architectures, is_staging))
    /\ sign_task_id' = returned_task_id
    /\ pc' = "push"
    /\ UNCHANGED << inputs, schedule_task_default, slug_count, idx, variant, architecture,
                    build_type, assemble_task_id, arm_assemble_task_id,
                    aarch64_assemble_task_id, build_task_id, raw_graph, files >>

\* generate_push_task calls taskcluster.slugId() and returns (slug, task); the
\* pair is what schedule_new_task receives as its task
LegacyPush ==
    /\ pc = "push"
    /\ command = "nightly-legacy"
    /\ slug_count' = slug_count + 1
    /\ schedule_new_task(generate_push_task(slug_count + 1, sign_task_id, architectures, is_staging))
    /\ pc' = "nimbledroid"
    /\ UNCHANGED << inputs, schedule_task_default, locals, raw_graph, files >>

LegacyNimbledroid ==
    /\ pc = "nimbledroid"
    /\ command = "nightly-legacy"
    /\ slug_count' = slug_count + 1
    /\ schedule_new_task(generate_upload_apk_nimbledroid_task(slug_count + 1, build_task_id))
    /\ pc' = "get_raw_graph"
    /\ UNCHANGED << inputs, schedule_task_default, locals, raw_graph, files >>

\* with open('task-graph.json', 'w') as f: json.dump(raw_graph, f)
LegacyWriteGraph ==
    /\ pc = "write_graph"
    /\ files' = ("task-graph.json" :> json_dump(raw_graph[1])) @@ files
    /\ pc' = "populate"
    /\ UNCHANGED << inputs, queue, schedule_task_default, slug_count, task_graph, printed,
                    locals, raw_graph >>

\* populate_chain_of_trust_required_but_unused_files() of decision_task_nightly.py
LegacyPopulate ==
    /\ pc = "populate"
    /\ command = "nightly-legacy"
    /\ files' = ("parameters.yml" :> {}) @@ ("actions.json" :> {}) @@ files
    /\ pc' = "done"
    /\ UNCHANGED << inputs, queue, schedule_task_default, slug_count, task_graph, printed,
                    locals, raw_graph >>

Next ==
    \/ Detekt \/ Ktlint \/ CompareLocales \/ Lint
    \/ VariantTest \/ VariantAssemble \/ Classify \/ DepSign
    \/ GetRawGraph \/ Populate
    \/ NightlyBuild \/ NightlySign \/ NightlyPush \/ NightlyNimbledroid
    \/ LegacyBuild \/ LegacySign \/ LegacyPush \/ LegacyNimbledroid
    \/ LegacyWriteGraph \/ LegacyPopulate

Spec == Init /\ [][Next]_vars

\* ------------------------------------------------------------------------
\* Well-formedness of the state
\* ------------------------------------------------------------------------
TypeOK ==
    /\ command \in Commands
    /\ is_staging \in BOOLEAN
    /\ pc \in { "detekt", "ktlint", "compare_locales", "lint", "test", "assemble",
                "classify", "dep_sign", "build", "sign", "push", "nimbledroid",
                "get_raw_graph", "write_graph", "populate", "done", "error" }
    /\ idx \in 0..Len(variants)
    /\ Len(raw_graph) \in { 0, 1 }

\* ------------------------------------------------------------------------
\* Reading the record of a run
\* ------------------------------------------------------------------------
\* the descriptor of the k-th scheduled task; decision_task_nightly.py hands
\* schedule_new_task a (slug, task) pair for its third and fourth task
descriptor_of(k) ==
    IF command = "nightly-legacy" /\ k \in { 3, 4 }
    THEN printed[k].task[2]
    ELSE printed[k].task

Scheduled == 1..Len(printed)

\* identifiers of the createTask calls the queue collaborator received
created_ids == [ k \in 1..Len(queue.created) |-> queue.created[k][1] ]

\* ------------------------------------------------------------------------
\* C1: any two schedule calls of one run return different identifiers, so
\* after n calls through the TaskGraph its mapping holds n keys.
\* ------------------------------------------------------------------------
C1_FreshIdentifiers ==
    /\ \A j, k \in Scheduled : j # k => printed[j].task_id # printed[k].task_id
    /\ UsesTaskGraph(command) => Cardinality(DOMAIN task_graph) = Len(printed)

\* ------------------------------------------------------------------------
\* C2: the mapping is append-only: no step removes a key, every identifier
\* schedule_new_task has returned is a key of the mapping and of the snapshot
\* taken afterwards, and taking the snapshot leaves the mapping unchanged.
\* ------------------------------------------------------------------------
C2_AppendOnly ==
    [][ /\ DOMAIN task_graph \subseteq DOMAIN task_graph'
        /\ UsesTaskGraph(command) =>
               \A k \in 1..Len(printed') : printed'[k].task_id \in DOMAIN task_graph'
        /\ (UsesTaskGraph(command) /\ raw_graph' # <<>>) =>
               \A k \in 1..Len(printed') : printed'[k].task_id \in DOMAIN raw_graph'[1]
        /\ raw_graph' # raw_graph => task_graph' = task_graph ]_vars

C2_Witness ==
    /\ raw_graph # <<>>
    /\ Len(printed) >= 2
    /\ printed[1].task_id \in DOMAIN raw_graph[1]

\* ------------------------------------------------------------------------
\* C3: every identifier recorded in the mapping was passed to the queue's
\* createTask, together with its descriptor, exactly once.
\* ------------------------------------------------------------------------
C3_SubmittedExactlyOnce ==
    \A id \in DOMAIN task_graph :
        Cardinality({ k \in 1..Len(queue.created) : created_ids[k] = id }) = 1

\* ------------------------------------------------------------------------
\* C4: when the queue collaborator rejects a submission the run aborts: the
\* rejected task's identifier is not recorded, no later task is scheduled and
\* no file is written.  With a queue that rejects every createTask this means
\* an empty mapping, at most the one attempted task, and no files.
\* ------------------------------------------------------------------------
C4_FailFast ==
    ~queue.accepting =>
        /\ DOMAIN task_graph = {}
        /\ Len(printed) <= 1
        /\ DOMAIN files = {}

\* ------------------------------------------------------------------------
\* What the claims say about variants, stated independently of the classifier
\* ------------------------------------------------------------------------
Architectures == { s_aarch64, s_x86, s_arm }
BuildTypes == { s_debug, s_release }

\* the architecture names the token contains, case-insensitively
contained_architectures(v) == { a \in Architectures : str_in(a, lower(v)) }
\* the build types the token ends in, case-insensitively
ending_build_types(v) == { b \in BuildTypes : endswith(lower(v), b) }

ExactlyOneOfEach(v) ==
    /\ Cardinality(contained_architectures(v)) = 1
    /\ Cardinality(ending_build_types(v)) = 1

LacksOne(v) == contained_architectures(v) = {} \/ ending_build_types(v) = {}

\* master_push: the variant whose classification arch and build_type hold
last_classified ==
    IF pc \in { "test", "assemble", "classify", "error" } THEN idx - 1 ELSE idx

\* the variant the run is processing or has stopped at
accepted_current == pc \in { "assemble", "classify" }

\* master_push: position in printed of the assemble task of the k-th variant
assemble_position(k) == 4 + 2 * k

\* positions of the variants master_push takes for arm+debug and aarch64+debug
classified_as(k, arch, bt) ==
    LET r == _get_architecture_and_build_type_from_variant(variants[k])
    IN  ~r.raised /\ r.architecture = arch /\ r.build_type = bt

arm_debug_positions == { k \in 1..Len(variants) : classified_as(k, s_arm, s_debug) }

aarch64_debug_positions == { k \in 1..Len(variants) : classified_as(k, s_aarch64, s_debug) }

only(S) == CHOOSE x \in S : TRUE

\* master_push has scheduled its dep-signing task
dep_sign_scheduled ==
    /\ command = "master-push"
    /\ pc \in { "get_raw_graph", "populate", "done" }

dep_sign_task == descriptor_of(Len(printed))

one_arm_one_aarch64 ==
    /\ Cardinality(arm_debug_positions) = 1
    /\ Cardinality(aarch64_debug_positions) = 1

static_names == { <<"detekt">>, <<"ktlint">>, <<"compare-locales">>, <<"lint">> }
has_prefix(s, prefix) == Len(s) >= Len(prefix) /\ SubSeq(s, 1, Len(prefix)) = prefix
count(P(_)) == Cardinality({ k \in Scheduled : P(descriptor_of(k).name) })
is_static(name) == name \in static_names
is_test(name) == has_prefix(name, s_test)
is_assemble(name) == has_prefix(name, s_assemble)
is_dep_sign(name) == name = <<"dep-sign">>

C6_EndToEnd ==
    (command = "master-push" /\ pc = "done") =>
        LET n == Len(variants)
        IN  /\ count(is_static) = 4
            /\ count(is_test) = n
            /\ count(is_assemble) = n
            /\ count(is_dep_sign) = 1
            /\ Cardinality(files["task-graph.json"]) = 2 * n + 5
            /\ variants = << armDebug, armRelease, aarch64Debug >> =>
                   /\ printed[assemble_position(1)].task_id \in
                          { dep_sign_task.dependencies[k] :
                              k \in 1..Len(dep_sign_task.dependencies) }
                   /\ printed[assemble_position(3)].task_id \in
                          { dep_sign_task.dependencies[k] :
                              k \in 1..Len(dep_sign_task.dependencies) }

\* ------------------------------------------------------------------------
\* Scopes of a nightly run
\* ------------------------------------------------------------------------
is_nightly == command \in { "release", "nightly-legacy" }

scopes_of(k) == { descriptor_of(k).scopes[j] : j \in 1..Len(descriptor_of(k).scopes) }
all_scopes == UNION { scopes_of(k) : k \in Scheduled }

is_googleplay_scope(scope) == has_prefix(scope, releng \o <<"googleplay">>)
is_cert_scope(scope) == has_prefix(scope, releng \o <<"signing", "cert">>)

production_publish_scope == releng \o <<"googleplay", "product", "reference-browser">>
staging_publish_scope == production_publish_scope \o <<"dep">>

\* the run has scheduled its signing task / its push task
sign_scheduled == is_nightly /\ Len(printed) >= 2
push_scheduled == is_nightly /\ Len(printed) >= 3

\* ------------------------------------------------------------------------
\* C7 as stated: a staging run uses the dep-signing certificate and no task of
\* it has a scope under ...releng:googleplay; a production run uses the
\* release-signing certificate and the production publish scope.
\* ------------------------------------------------------------------------
C7_Original ==
    is_nightly =>
        /\ is_staging =>
               /\ sign_scheduled => scope_signing_cert("dep-signing") \in scopes_of(2)
               /\ \A sc \in all_scopes : ~is_googleplay_scope(sc)
        /\ ~is_staging =>
               /\ sign_scheduled => scope_signing_cert("release-signing") \in scopes_of(2)
               /\ push_scheduled => production_publish_scope \in scopes_of(3)

\* C7 as amended: a staging run uses the dep-signing certificate and its only
\* scope under ...releng:googleplay is the publish scope with the ":dep"
\* suffix, carried by the push task; a production run uses the release-signing
\* certificate and the production publish scope (no ":dep" suffix).
C7_StagingScopes ==
    is_nightly =>
        /\ \A sc \in all_scopes :
               /\ is_cert_scope(sc) =>
                      sc = scope_signing_cert(IF is_staging THEN "dep-signing"
                                              ELSE "release-signing")
               /\ is_googleplay_scope(sc) =>
                      sc = (IF is_staging THEN staging_publish_scope
                            ELSE production_publish_scope)
        /\ sign_scheduled =>
               \E sc \in scopes_of(2) : is_cert_scope(sc)
        /\ push_scheduled =>
               \E sc \in scopes_of(3) : is_googleplay_scope(sc)

C7_Witness ==
    /\ is_nightly
    /\ is_staging
    /\ pc = "done"
    /\ staging_publish_scope \in scopes_of(3)
    /\ scope_signing_cert("dep-signing") \in scopes_of(2)

\* ------------------------------------------------------------------------
\* C8 as stated: for both values of the staging flag the nightly policy
\* schedules exactly four tasks: build, then signing depending on the build
\* task, then push depending on the signing task, then the performance upload
\* depending on the build task.
\* ------------------------------------------------------------------------
name_build == <<"(Reference Browser) Build task">>
name_signing == <<"(Reference Browser) Signing task">>
name_push == <<"(Reference Browser) Push task">>
name_nimbledroid == <<"(RB for Android) Upload Debug APK to Nimbledroid">>

dependencies_of(k) ==
    { descriptor_of(k).dependencies[j] : j \in 1..Len(descriptor_of(k).dependencies) }

\* the first three tasks of a finished nightly run: build, signing, push, each
\* depending on the one the claim names
build_sign_push ==
    /\ Len(printed) >= 3
    /\ descriptor_of(1).name = name_build
    /\ descriptor_of(2).name = name_signing
    /\ descriptor_of(3).name = name_push
    /\ printed[1].task_id \in dependencies_of(2)
    /\ printed[2].task_id \in dependencies_of(3)

C9_Classify ==
    UsesVariants(command) =>
        \* a run stops with the error only at a variant that lacks one
        /\ pc = "error" => LacksOne(variant)
        \* a variant whose tasks are being built was not rejected
        /\ accepted_current => ~LacksOne(variant)
        \* every earlier variant of the list was accepted too
        /\ \A k \in 1..last_classified : ~LacksOne(variants[k])
        \* master_push holds the pair of the variant it classified last
        /\ (command = "master-push" /\ last_classified >= 1
                /\ ExactlyOneOfEach(variants[last_classified])) =>
               /\ architecture = only(contained_architectures(variants[last_classified]))
               /\ build_type = only(ending_build_types(variants[last_classified]))

C9_Witness ==
    /\ command = "master-push"
    /\ pc = "error"
    /\ variants = << armDebug, s_Debug >>
    /\ architecture = s_arm
    /\ build_type = s_debug

\* ------------------------------------------------------------------------
\* C10: the classifier does not route a 64-bit ARM token to arm:
\* "arm64Release" is not classified as architecture arm,
\* "geckoNightlyAarch64Release" is classified (aarch64, release), and among
\* the architectures a token contains aarch64 wins over x86, which wins over
\* arm.
\* ------------------------------------------------------------------------
C10_NoMisrouting ==
    (command = "master-push" /\ last_classified >= 1) =>
        LET v == variants[last_classified]
            found == contained_architectures(v)
        IN  /\ v = arm64Release => architecture # s_arm
            /\ v = geckoNightlyAarch64Release =>
                   (architecture = s_aarch64 /\ build_type = s_release)
            /\ architecture =
                   (IF s_aarch64 \in found THEN s_aarch64
                    ELSE IF s_x86 \in found THEN s_x86 ELSE s_arm)

\* ------------------------------------------------------------------------
\* Artifacts of the scheduled tasks
\* ------------------------------------------------------------------------
\* the variants whose assemble task has been scheduled
assembled_variants ==
    IF UsesVariants(command)
    THEN { j \in 1..Len(variants) : assemble_position(j) <= Len(printed) }
    ELSE {}

\* the artifacts the k-th scheduled task declares, and their public names
artifacts_of(k) == descriptor_of(k).payload.artifacts
artifact_names_of(k) == { a.name : a \in artifacts_of(k) }

\* ------------------------------------------------------------------------
\* C11: the artifact path of a variant's assemble task ends in
\* "-unsigned.apk" if and only if the variant's build type is release, and
\* the path of a debug variant does not contain "-unsigned" at all.
\* ------------------------------------------------------------------------
C11_UnsignedIffRelease ==
    \A j \in assembled_variants :
        /\ artifacts_of(assemble_position(j)) # {}
        /\ \A a \in artifacts_of(assemble_position(j)) :
               /\ endswith(a.path, s_apk)
               /\ endswith(a.path, s_unsigned \o s_apk)
                      <=> ending_build_types(variants[j]) = { s_release }
               /\ ending_build_types(variants[j]) = { s_debug }
                      => ~str_in(s_unsigned, a.path)

C11_Witness ==
    /\ command = "master-push"
    /\ pc = "done"
    /\ variants = << armDebug, armRelease >>
    /\ \E a \in artifacts_of(assemble_position(2)) : endswith(a.path, s_unsigned \o s_apk)
    /\ \E a \in artifacts_of(assemble_position(1)) : ~str_in(s_unsigned, a.path)

\* ------------------------------------------------------------------------
\* C12: for pull-request/push and branch-push an empty variant list is a
\* fatal configuration error: the run does not complete normally, and
\* master_push neither schedules its signing task nor serializes a graph.
\* ------------------------------------------------------------------------
scheduled_names == { descriptor_of(k).name : k \in Scheduled }

C12_EmptyVariantsFatal ==
    (UsesVariants(command) /\ variants = <<>>) =>
        /\ pc # "done"
        /\ <<"dep-sign">> \notin scheduled_names
        /\ "task-graph.json" \notin DOMAIN files

\* ------------------------------------------------------------------------
\* C13: no forward or dangling reference: every entry of the dependency list
\* of a scheduled task is the task-group identifier or the identifier of a
\* task scheduled earlier in the run; it is never None.
\* ------------------------------------------------------------------------
C13_NoDanglingDependencies ==
    \A k \in Scheduled :
        \A dep \in dependencies_of(k) :
            \/ dep = TASK_ID
            \/ \E j \in 1..(k - 1) : printed[j].task_id = dep

\* ------------------------------------------------------------------------
\* C14: every path a signing task names in its upstreamArtifacts is a public
\* artifact that a task with the named identifier declares.
\* ------------------------------------------------------------------------
is_signing_task(k) == descriptor_of(k).name \in { <<"dep-sign">>, name_signing }

upstream_of(k) ==
    { descriptor_of(k).payload.upstreamArtifacts[j] :
        j \in 1..Len(descriptor_of(k).payload.upstreamArtifacts) }

C14_UpstreamArtifactsDeclared ==
    \A k \in Scheduled :
        is_signing_task(k) =>
            \A u \in upstream_of(k) :
                \A j \in 1..Len(u.paths) :
                    \E t \in Scheduled :
                        /\ printed[t].task_id = u.taskId
                        /\ u.paths[j] \in artifact_names_of(t)

====
